---- MODULE Spec2Model ----
(***************************************************************************)
(* Family Chart & Inheritance Risk (src/pages/6_Family_Chart.py).          *)
(*                                                                         *)
(* The state is st.session_state.family, the in-memory pedigree store.     *)
(* Every action is one rerun of the page script in which one widget was    *)
(* used: the proband editor or the add-relative form.  The risk engines,   *)
(* the bucketing and the engine dispatch read the store and the sidebar    *)
(* inputs and write nothing; they are operators over the store.            *)
(*                                                                         *)
(* Python floats are modelled as exact rationals [n, d] with d > 0; an     *)
(* Optional[float] that is None is the rational with d = 0.  Python None   *)
(* in a string-valued slot is the string "None"; the tri-state             *)
(* Optional[bool] is one of "True", "False", "None".                       *)
(*                                                                         *)
(* The PAM site finder (src/genovate_backend.py, find_pam_sites) is the    *)
(* second part: its state is the two text inputs of the finder and the     *)
(* list of sites shown after the button was pressed.  Strings are tuples   *)
(* of one-character strings.                                               *)
(***************************************************************************)
EXTENDS Integers, Sequences, FiniteSets, TLC

VARIABLES family, dna_input, pam_motif, sites, clicked

vars == <<family, dna_input, pam_motif, sites, clicked>>

-----------------------------------------------------------------------------
(* Exact rationals standing for Python floats.                             *)

Rat(n, d) == [n |-> n, d |-> d]

NoneFloat == Rat(0, 0)

IsNone(x) == x.d = 0

RMul(a, b) == Rat(a.n * b.n, a.d * b.d)

RAdd(a, b) == Rat(a.n * b.d + b.n * a.d, a.d * b.d)

RLt(a, b) == a.n * b.d < b.n * a.d

RLe(a, b) == a.n * b.d <= b.n * a.d

REq(a, b) == a.n * b.d = b.n * a.d

\* Python max(a, b): the first argument unless the second is greater.
RMax(a, b) == IF RLt(a, b) THEN b ELSE a

\* Python min(a, b): the first argument unless the second is smaller.
RMin(a, b) == IF RLt(b, a) THEN b ELSE a

Zero == Rat(0, 1)

One == Rat(1, 1)

Half == Rat(1, 2)

Quarter == Rat(1, 4)

TwoThirds == Rat(2, 3)

InUnit(x) == ~IsNone(x) /\ RLe(Zero, x) /\ RLe(x, One)

-----------------------------------------------------------------------------
(* Data model.                                                             *)

None == "None"

Tri == {"True", "False", "None"}

\* dataclass Person; parents is <<>> or <<father_pid, mother_pid>>.
Person(pid, name, sex, relation, affected, carrier, age, notes, parents) ==
    [pid |-> pid, name |-> name, sex |-> sex, relation |-> relation,
     affected |-> affected, carrier |-> carrier, age |-> age,
     notes |-> notes, parents |-> parents]

\* The value None where an Optional[Person] is expected.
NonePerson == Person(None, None, None, None, None, None, None, None, <<>>)

proband_id == "P0"

\* dataclass InheritanceParams without the pattern, which is passed apart.
InheritanceParams(prevalence, carrier_freq, penetrance, de_novo_rate) ==
    [prevalence |-> prevalence, carrier_freq |-> carrier_freq,
     penetrance |-> penetrance, de_novo_rate |-> de_novo_rate]

\* dict.get(key): the value stored under key, else None.
DictGet(persons, key) ==
    IF key \in DOMAIN persons THEN persons[key] ELSE NonePerson

\* "Unknown"/"No"/"Yes" of a selectbox to None/False/True.
TriOf(choice) ==
    IF choice = "Unknown" THEN "None"
    ELSE IF choice = "Yes" THEN "True" ELSE "False"

\* get_parent reading the father from the second slot and the mother from
\* the first.
get_parent_SwappedSlots(persons, pid, role) ==
    LET p == DictGet(persons, pid) IN
    IF p.pid = None \/ p.parents = <<>> THEN NonePerson
    ELSE LET father_id == IF Len(p.parents) > 1 THEN p.parents[2] ELSE None
             mother_id == IF Len(p.parents) > 0 THEN p.parents[1] ELSE None
         IN  IF role = "father" /\ father_id # None
                 THEN DictGet(persons, father_id)
             ELSE IF role = "mother" /\ mother_id # None
                 THEN DictGet(persons, mother_id)
             ELSE NonePerson

\* get_parent finding the parent among the members by relation, the first
\* one added, instead of reading the slots.
get_parent_ByRelation(persons, pid, role) ==
    LET p == DictGet(persons, pid)
        named == {n \in 0..Cardinality(DOMAIN persons) :
                    /\ ("P" \o ToString(n)) \in DOMAIN persons
                    /\ persons["P" \o ToString(n)].relation = role}
    IN  IF p.pid = None \/ p.parents = <<>> \/ named = {} THEN NonePerson
        ELSE persons["P" \o ToString(CHOOSE n \in named :
                                        \A m \in named : n <= m)]

get_parent(persons, pid, role) ==
    LET p == DictGet(persons, pid) IN
    IF p.pid = None \/ p.parents = <<>> THEN NonePerson
    ELSE LET father_id == IF Len(p.parents) > 0 THEN p.parents[1] ELSE None
             mother_id == IF Len(p.parents) > 1 THEN p.parents[2] ELSE None
         IN  IF role = "father" /\ father_id # None
                 THEN DictGet(persons, father_id)
             ELSE IF role = "mother" /\ mother_id # None
                 THEN DictGet(persons, mother_id)
             ELSE NonePerson

-----------------------------------------------------------------------------
(* Risk classification (lines 71-78).                                      *)

\* risk_bucket with the thresholds inclusive.
risk_bucket_Inclusive(prob) ==
    IF IsNone(prob) THEN "Unknown"
    ELSE IF RLe(prob, Rat(1, 100)) THEN "Low"
    ELSE IF RLe(prob, Rat(1, 10)) THEN "Moderate"
    ELSE "High"

risk_bucket(prob) ==
    IF IsNone(prob) THEN "Unknown"
    ELSE IF RLt(prob, Rat(1, 100)) THEN "Low"
    ELSE IF RLt(prob, Rat(1, 10)) THEN "Moderate"
    ELSE "High"

\* f"{prob*100:.1f}": the percentage in tenths, rounded to the nearest
\* tenth (an exact tie is rounded to even here; Python rounds the binary
\* value of the float).
PctTenths(prob) ==
    LET x == prob.n * 1000
        q == x \div prob.d
        r == x % prob.d
    IN  IF 2 * r < prob.d THEN q
        ELSE IF 2 * r > prob.d THEN q + 1
        ELSE q + (q % 2)

\* badge (lines 81-87): the css class, the label and the percentage of the
\* span; for None the span has the label alone.
badge(prob) ==
    IF IsNone(prob) THEN [cls |-> "", label |-> "Unknown", pct |-> None]
    ELSE LET b == risk_bucket(prob)
             cls == IF b = "Low" THEN "low"
                    ELSE IF b = "Moderate" THEN "mod"
                    ELSE IF b = "High" THEN "high"
                    ELSE ""
         IN  [cls |-> cls, label |-> b, pct |-> PctTenths(prob)]

-----------------------------------------------------------------------------
(* Simplified risk engines (lines 115-202).                                *)

\* An Optional[Person] used as a condition: None is false.
IsPerson(p) == p.pid # None

\* An Optional[bool] used as a condition: only True is true.
Truthy(v) == v = "True"

\* min(max(x, 0.0), 1.0)
Clamp(x) == RMin(RMax(x, Zero), One)

\* prob_proband_AR with the mother's update written to cf.
prob_proband_AR_MotherSetsCf(persons, proband, prm) ==
    LET q == prm.carrier_freq
        father == get_parent(persons, proband.pid, "father")
        mother == get_parent(persons, proband.pid, "mother")
        cf1 == IF (IsPerson(father) /\ father.affected = "True")
                  \/ (IsPerson(mother) /\ mother.affected = "True")
                  THEN One ELSE q
        cm1 == q
        sibs == {k \in DOMAIN persons : persons[k].relation = "sibling"}
        anyAffected == \E k \in sibs : Truthy(persons[k].affected)
        cf == IF anyAffected THEN RMax(cf1, TwoThirds) ELSE cf1
        cm == IF anyAffected THEN RMax(cm1, TwoThirds) ELSE cm1
        prob == RMul(RMul(RMul(cf, cm), Quarter), prm.penetrance)
    IN  Clamp(prob)

\* prob_proband_AR with the promotion applied to the father only.
prob_proband_AR_PromotesFatherOnly(persons, proband, prm) ==
    LET q == prm.carrier_freq
        father == get_parent(persons, proband.pid, "father")
        mother == get_parent(persons, proband.pid, "mother")
        cf1 == IF IsPerson(father) /\ father.affected = "True" THEN One ELSE q
        cm1 == IF IsPerson(mother) /\ mother.affected = "True" THEN One ELSE q
        sibs == {k \in DOMAIN persons : persons[k].relation = "sibling"}
        anyAffected == \E k \in sibs : Truthy(persons[k].affected)
        cf == IF anyAffected THEN RMax(cf1, TwoThirds) ELSE cf1
        cm == cm1
        prob == RMul(RMul(RMul(cf, cm), Quarter), prm.penetrance)
    IN  Clamp(prob)

\* prob_proband_AR with the promotion assigning 2/3 instead of taking max.
prob_proband_AR_PromotionAssigns(persons, proband, prm) ==
    LET q == prm.carrier_freq
        father == get_parent(persons, proband.pid, "father")
        mother == get_parent(persons, proband.pid, "mother")
        cf1 == IF IsPerson(father) /\ father.affected = "True" THEN One ELSE q
        cm1 == IF IsPerson(mother) /\ mother.affected = "True" THEN One ELSE q
        sibs == {k \in DOMAIN persons : persons[k].relation = "sibling"}
        anyAffected == \E k \in sibs : Truthy(persons[k].affected)
        cf == IF anyAffected THEN TwoThirds ELSE cf1
        cm == IF anyAffected THEN TwoThirds ELSE cm1
        prob == RMul(RMul(RMul(cf, cm), Quarter), prm.penetrance)
    IN  Clamp(prob)

\* prob_proband_AR starting both parents from prevalence.
prob_proband_AR_PrevalenceBaseline(persons, proband, prm) ==
    LET q == prm.prevalence
        father == get_parent(persons, proband.pid, "father")
        mother == get_parent(persons, proband.pid, "mother")
        cf1 == IF IsPerson(father) /\ father.affected = "True" THEN One ELSE q
        cm1 == IF IsPerson(mother) /\ mother.affected = "True" THEN One ELSE q
        sibs == {k \in DOMAIN persons : persons[k].relation = "sibling"}
        anyAffected == \E k \in sibs : Truthy(persons[k].affected)
        cf == IF anyAffected THEN RMax(cf1, TwoThirds) ELSE cf1
        cm == IF anyAffected THEN RMax(cm1, TwoThirds) ELSE cm1
        prob == RMul(RMul(RMul(cf, cm), Quarter), prm.penetrance)
    IN  Clamp(prob)

\* prob_proband_AR promoting the parents on any affected relative.
prob_proband_AR_AnyRelative(persons, proband, prm) ==
    LET q == prm.carrier_freq
        father == get_parent(persons, proband.pid, "father")
        mother == get_parent(persons, proband.pid, "mother")
        cf1 == IF IsPerson(father) /\ father.affected = "True" THEN One ELSE q
        cm1 == IF IsPerson(mother) /\ mother.affected = "True" THEN One ELSE q
        sibs == {k \in DOMAIN persons :
                    persons[k].relation \notin {"self", "mother", "father"}}
        anyAffected == \E k \in sibs : Truthy(persons[k].affected)
        cf == IF anyAffected THEN RMax(cf1, TwoThirds) ELSE cf1
        cm == IF anyAffected THEN RMax(cm1, TwoThirds) ELSE cm1
        prob == RMul(RMul(RMul(cf, cm), Quarter), prm.penetrance)
    IN  Clamp(prob)

\* prob_proband_AR treating a parent recorded as a known carrier as an
\* obligate carrier.
prob_proband_AR_CarrierIsObligate(persons, proband, prm) ==
    LET q == prm.carrier_freq
        father == get_parent(persons, proband.pid, "father")
        mother == get_parent(persons, proband.pid, "mother")
        cf1 == IF IsPerson(father)
                    /\ (father.affected = "True" \/ Truthy(father.carrier))
               THEN One ELSE q
        cm1 == IF IsPerson(mother)
                    /\ (mother.affected = "True" \/ Truthy(mother.carrier))
               THEN One ELSE q
        sibs == {k \in DOMAIN persons : persons[k].relation = "sibling"}
        anyAffected == \E k \in sibs : Truthy(persons[k].affected)
        cf == IF anyAffected THEN RMax(cf1, TwoThirds) ELSE cf1
        cm == IF anyAffected THEN RMax(cm1, TwoThirds) ELSE cm1
        prob == RMul(RMul(RMul(cf, cm), Quarter), prm.penetrance)
    IN  Clamp(prob)

prob_proband_AR(persons, proband, prm) ==
    LET q == prm.carrier_freq
        father == get_parent(persons, proband.pid, "father")
        mother == get_parent(persons, proband.pid, "mother")
        cf1 == IF IsPerson(father) /\ father.affected = "True" THEN One ELSE q
        cm1 == IF IsPerson(mother) /\ mother.affected = "True" THEN One ELSE q
        sibs == {k \in DOMAIN persons : persons[k].relation = "sibling"}
        anyAffected == \E k \in sibs : Truthy(persons[k].affected)
        cf == IF anyAffected THEN RMax(cf1, TwoThirds) ELSE cf1
        cm == IF anyAffected THEN RMax(cm1, TwoThirds) ELSE cm1
        prob == RMul(RMul(RMul(cf, cm), Quarter), prm.penetrance)
    IN  Clamp(prob)

\* prob_proband_AD with the de novo fallback not scaled by penetrance.
prob_proband_AD_FallbackUnscaled(persons, proband, prm) ==
    LET father == get_parent(persons, proband.pid, "father")
        mother == get_parent(persons, proband.pid, "mother")
        r0 == Zero
        r1 == IF IsPerson(father) /\ father.affected = "True"
                  THEN RMax(r0, RMul(Half, prm.penetrance)) ELSE r0
        r2 == IF IsPerson(mother) /\ mother.affected = "True"
                  THEN RMax(r1, RMul(Half, prm.penetrance)) ELSE r1
        parent_risk == IF REq(r2, Zero) THEN prm.de_novo_rate ELSE r2
    IN  Clamp(parent_risk)

\* prob_proband_AD counting a parent of unknown status as affected.
prob_proband_AD_UnknownCounts(persons, proband, prm) ==
    LET father == get_parent(persons, proband.pid, "father")
        mother == get_parent(persons, proband.pid, "mother")
        r0 == Zero
        r1 == IF IsPerson(father) /\ father.affected # "False"
                  THEN RMax(r0, RMul(Half, prm.penetrance)) ELSE r0
        r2 == IF IsPerson(mother) /\ mother.affected # "False"
                  THEN RMax(r1, RMul(Half, prm.penetrance)) ELSE r1
        parent_risk == IF REq(r2, Zero)
                           THEN RMul(prm.de_novo_rate, prm.penetrance) ELSE r2
    IN  Clamp(parent_risk)

\* prob_proband_AD adding the two parents' contributions.
prob_proband_AD_Adds(persons, proband, prm) ==
    LET father == get_parent(persons, proband.pid, "father")
        mother == get_parent(persons, proband.pid, "mother")
        r0 == Zero
        r1 == IF IsPerson(father) /\ father.affected = "True"
                  THEN RMul(Half, prm.penetrance) ELSE r0
        r2 == IF IsPerson(mother) /\ mother.affected = "True"
                  THEN RAdd(r1, RMul(Half, prm.penetrance))
                  ELSE r1
        parent_risk == IF REq(r2, Zero)
                           THEN RMul(prm.de_novo_rate, prm.penetrance) ELSE r2
    IN  Clamp(parent_risk)

prob_proband_AD(persons, proband, prm) ==
    LET father == get_parent(persons, proband.pid, "father")
        mother == get_parent(persons, proband.pid, "mother")
        r0 == Zero
        r1 == IF IsPerson(father) /\ father.affected = "True"
                  THEN RMax(r0, RMul(Half, prm.penetrance)) ELSE r0
        r2 == IF IsPerson(mother) /\ mother.affected = "True"
                  THEN RMax(r1, RMul(Half, prm.penetrance)) ELSE r1
        parent_risk == IF REq(r2, Zero)
                           THEN RMul(prm.de_novo_rate, prm.penetrance) ELSE r2
    IN  Clamp(parent_risk)

\* prob_proband_XLR whose male branch reads only the mother's affected flag.
prob_proband_XLR_IgnoresCarrier(persons, proband, prm) ==
    LET q == prm.carrier_freq
        father == get_parent(persons, proband.pid, "father")
        mother == get_parent(persons, proband.pid, "mother")
    IN  IF proband.sex = "M"
            THEN LET cm == IF IsPerson(mother) /\ mother.affected = "True"
                               THEN One ELSE q
                 IN  RMul(RMul(Half, cm), prm.penetrance)
            ELSE LET cf == IF IsPerson(father) /\ Truthy(father.affected)
                               THEN One ELSE Zero
                     cm == IF ~(IsPerson(mother)
                                /\ (Truthy(mother.carrier)
                                    \/ Truthy(mother.affected)))
                               THEN q ELSE One
                 IN  RMul(RMul(RMul(cm, cf), Quarter), prm.penetrance)

\* prob_proband_XLR whose female branch starts the father at carrier_freq.
prob_proband_XLR_FatherBaseline(persons, proband, prm) ==
    LET q == prm.carrier_freq
        father == get_parent(persons, proband.pid, "father")
        mother == get_parent(persons, proband.pid, "mother")
    IN  IF proband.sex = "M"
            THEN LET cm == IF IsPerson(mother)
                              /\ (Truthy(mother.carrier)
                                  \/ mother.affected = "True")
                               THEN One ELSE q
                 IN  RMul(RMul(Half, cm), prm.penetrance)
            ELSE LET cf == IF IsPerson(father) /\ Truthy(father.affected)
                               THEN One ELSE q
                     cm == IF ~(IsPerson(mother)
                                /\ (Truthy(mother.carrier)
                                    \/ Truthy(mother.affected)))
                               THEN q ELSE One
                 IN  RMul(RMul(RMul(cm, cf), Quarter), prm.penetrance)

\* prob_proband_XLR taking a mother as a carrier unless she is recorded as
\* a non-carrier.
prob_proband_XLR_UnknownCarrierCounts(persons, proband, prm) ==
    LET q == prm.carrier_freq
        father == get_parent(persons, proband.pid, "father")
        mother == get_parent(persons, proband.pid, "mother")
        motherCarrier == IsPerson(mother)
                            /\ (mother.carrier # "False"
                                \/ mother.affected = "True")
    IN  IF proband.sex = "M"
        THEN RMul(RMul(Half, IF motherCarrier THEN One ELSE q),
                  prm.penetrance)
        ELSE LET cf == IF IsPerson(father) /\ Truthy(father.affected)
                       THEN One ELSE Zero
                 cm == IF motherCarrier THEN One ELSE q
             IN  RMul(RMul(RMul(cm, cf), Quarter), prm.penetrance)

prob_proband_XLR(persons, proband, prm) ==
    LET q == prm.carrier_freq
        father == get_parent(persons, proband.pid, "father")
        mother == get_parent(persons, proband.pid, "mother")
    IN  IF proband.sex = "M"
            THEN LET cm == IF IsPerson(mother)
                              /\ (Truthy(mother.carrier)
                                  \/ mother.affected = "True")
                               THEN One ELSE q
                 IN  RMul(RMul(Half, cm), prm.penetrance)
            ELSE LET cf == IF IsPerson(father) /\ Truthy(father.affected)
                               THEN One ELSE Zero
                     cm == IF ~(IsPerson(mother)
                                /\ (Truthy(mother.carrier)
                                    \/ Truthy(mother.affected)))
                               THEN q ELSE One
                 IN  RMul(RMul(RMul(cm, cf), Quarter), prm.penetrance)

\* prob_proband_XLD without the branch on the proband's sex.
prob_proband_XLD_NoSexBranch(persons, proband, prm) ==
    LET father == get_parent(persons, proband.pid, "father")
        mother == get_parent(persons, proband.pid, "mother")
        r0 == Zero
        r1 == IF IsPerson(mother) /\ Truthy(mother.affected)
                  THEN RMax(r0, RMul(Half, prm.penetrance)) ELSE r0
        r2 == IF IsPerson(father) /\ Truthy(father.affected)
                  THEN RMax(r1, RMul(One, prm.penetrance)) ELSE r1
        risk == IF REq(r2, Zero)
                    THEN RMul(prm.de_novo_rate, prm.penetrance) ELSE r2
    IN  Clamp(risk)

\* prob_proband_XLD whose female branch counts an affected father as 0.5.
prob_proband_XLD_FatherHalf(persons, proband, prm) ==
    LET father == get_parent(persons, proband.pid, "father")
        mother == get_parent(persons, proband.pid, "mother")
    IN  IF proband.sex = "F"
            THEN LET r0 == Zero
                     r1 == IF IsPerson(mother) /\ Truthy(mother.affected)
                               THEN RMax(r0, RMul(Half, prm.penetrance))
                               ELSE r0
                     r2 == IF IsPerson(father) /\ Truthy(father.affected)
                               THEN RMax(r1, RMul(Half, prm.penetrance))
                               ELSE r1
                     risk == IF REq(r2, Zero)
                                 THEN RMul(prm.de_novo_rate, prm.penetrance)
                                 ELSE r2
                 IN  Clamp(risk)
            ELSE IF IsPerson(mother) /\ Truthy(mother.affected)
                     THEN RMul(Half, prm.penetrance)
                     ELSE RMul(prm.de_novo_rate, prm.penetrance)

prob_proband_XLD(persons, proband, prm) ==
    LET father == get_parent(persons, proband.pid, "father")
        mother == get_parent(persons, proband.pid, "mother")
    IN  IF proband.sex = "F"
            THEN LET r0 == Zero
                     r1 == IF IsPerson(mother) /\ Truthy(mother.affected)
                               THEN RMax(r0, RMul(Half, prm.penetrance))
                               ELSE r0
                     r2 == IF IsPerson(father) /\ Truthy(father.affected)
                               THEN RMax(r1, RMul(One, prm.penetrance))
                               ELSE r1
                     risk == IF REq(r2, Zero)
                                 THEN RMul(prm.de_novo_rate, prm.penetrance)
                                 ELSE r2
                 IN  Clamp(risk)
            ELSE IF IsPerson(mother) /\ Truthy(mother.affected)
                     THEN RMul(Half, prm.penetrance)
                     ELSE RMul(prm.de_novo_rate, prm.penetrance)

\* prob_proband_MITO returning a percentage, as the badge prints it.
prob_proband_MITO_Percent(persons, proband, prm) ==
    LET mother == get_parent(persons, proband.pid, "mother") IN
    IF IsPerson(mother) /\ Truthy(mother.affected)
        THEN RMul(Rat(100, 1), prm.penetrance)
        ELSE RMul(Rat(100, 1), RMul(prm.prevalence, prm.penetrance))

\* prob_proband_MITO transmitting from either parent.
prob_proband_MITO_EitherParent(persons, proband, prm) ==
    LET mother == get_parent(persons, proband.pid, "mother")
        father == get_parent(persons, proband.pid, "father")
    IN  IF (IsPerson(mother) /\ Truthy(mother.affected))
           \/ (IsPerson(father) /\ Truthy(father.affected))
            THEN RMul(One, prm.penetrance)
            ELSE RMul(prm.prevalence, prm.penetrance)

prob_proband_MITO(persons, proband, prm) ==
    LET mother == get_parent(persons, proband.pid, "mother") IN
    IF IsPerson(mother) /\ Truthy(mother.affected)
        THEN RMul(One, prm.penetrance)
        ELSE RMul(prm.prevalence, prm.penetrance)

-----------------------------------------------------------------------------
(* Pattern names, as strings of characters, and dispatch (lines 205-218,   *)
(* 325-336).                                                               *)

\* "Autosomal Recessive (AR)"
KeyAR ==
    <<"A", "u", "t", "o", "s", "o", "m", "a", "l", " ", "R", "e", "c", "e", "s", "s", "i", "v", "e", " ", "(", "A", "R", ")">>

\* "Autosomal Dominant (AD)"
KeyAD ==
    <<"A", "u", "t", "o", "s", "o", "m", "a", "l", " ", "D", "o", "m", "i", "n", "a", "n", "t", " ", "(", "A", "D", ")">>

\* "X-linked Recessive (XLR)"
KeyXLR ==
    <<"X", "-", "l", "i", "n", "k", "e", "d", " ", "R", "e", "c", "e", "s", "s", "i", "v", "e", " ", "(", "X", "L", "R", ")">>

\* "X-linked Dominant (XLD)"
KeyXLD ==
    <<"X", "-", "l", "i", "n", "k", "e", "d", " ", "D", "o", "m", "i", "n", "a", "n", "t", " ", "(", "X", "L", "D", ")">>

\* "Mitochondrial (MITO)"
KeyMITO ==
    <<"M", "i", "t", "o", "c", "h", "o", "n", "d", "r", "i", "a", "l", " ", "(", "M", "I", "T", "O", ")">>

\* "Custom (manual override)"
KeyCustom ==
    <<"C", "u", "s", "t", "o", "m", " ", "(", "m", "a", "n", "u", "a", "l", " ", "o", "v", "e", "r", "r", "i", "d", "e", ")">>

\* The keys of PATTERN_ENGINES in insertion order.
PATTERN_ENGINES == <<KeyAR, KeyAD, KeyXLR, KeyXLD, KeyMITO>>

\* The options of the pattern selectbox.
PatternOptions ==
    {PATTERN_ENGINES[i] : i \in DOMAIN PATTERN_ENGINES} \cup {KeyCustom}

\* The value registered under the i-th key of PATTERN_ENGINES, applied.
ApplyEngine(i, persons, proband, prm) ==
    CASE i = 1 -> prob_proband_AR(persons, proband, prm)
      [] i = 2 -> prob_proband_AD(persons, proband, prm)
      [] i = 3 -> prob_proband_XLR(persons, proband, prm)
      [] i = 4 -> prob_proband_XLD(persons, proband, prm)
      [] i = 5 -> prob_proband_MITO(persons, proband, prm)

\* k.split(" ")[0]: the part of k before the first blank.
SplitHead_AtBlank(k) ==
    LET cuts == {i \in 1..Len(k) : k[i] = " "}
    IN  IF cuts = {} THEN k
        ELSE SubSeq(k, 1, (CHOOSE i \in cuts : \A j \in cuts : i <= j) - 1)

\* k.split(" (")[0]: the part of k before the first " (", or all of k.
SplitHead(k) ==
    LET cuts == {i \in 1..(Len(k) - 1) : k[i] = " " /\ k[i + 1] = "("}
    IN  IF cuts = {} THEN k
        ELSE SubSeq(k, 1, (CHOOSE i \in cuts : \A j \in cuts : i <= j) - 1)

\* s.startswith(prefix)
StartsWith(s, prefix) ==
    /\ Len(prefix) <= Len(s)
    /\ SubSeq(s, 1, Len(prefix)) = prefix

\* The index of the engine the dispatch loop selects, 0 for engine = None.
SelectedEngine(pattern) ==
    LET matching == {i \in DOMAIN PATTERN_ENGINES :
                    StartsWith(pattern, SplitHead(PATTERN_ENGINES[i]))}
    IN  IF matching = {} THEN 0
        ELSE CHOOSE i \in matching : \A j \in matching : i <= j

\* The dispatch loop's result for each option of the pattern selectbox.
EngineFor == [pattern \in PatternOptions |-> SelectedEngine(pattern)]

\* Lines 325-336: the probability the page shows.
compute_risk(pattern, persons, prm) ==
    LET proband == persons[proband_id]
        engine == EngineFor[pattern]
    IN  IF engine # 0 THEN ApplyEngine(engine, persons, proband, prm)
        ELSE NoneFloat

-----------------------------------------------------------------------------
(* Bounds and input sets.                                                  *)

\* Relatives that one session adds.
MaxRelatives == 3

TriChoices == {"Unknown", "No", "Yes"}

\* What the add-relative form submits.
Form(name, relation, sex, affected, carrier, age, notes) ==
    [name |-> name, relation |-> relation, sex |-> sex,
     affected |-> affected, carrier |-> carrier, age |-> age,
     notes |-> notes]

\* The submissions tried.  The relation selectbox offers eight relations; the
\* code tells apart "mother", "father", "sibling" and the rest, for which
\* "cousin" stands.  A submission with an empty name is tried as well.
NamedInputs ==
    {Form("Ann", "mother", "F", "Yes", "Unknown", 0, ""),
     Form("Ann", "mother", "F", "Unknown", "Yes", 0, ""),
     Form("Ann", "mother", "F", "No", "No", 0, ""),
     Form("Ann", "father", "M", "Yes", "Unknown", 0, ""),
     Form("Ann", "father", "M", "Unknown", "Unknown", 0, ""),
     Form("Ann", "sibling", "M", "Yes", "Unknown", 0, ""),
     Form("Ann", "cousin", "F", "Yes", "Unknown", 0, "")}

FormInputs ==
    NamedInputs \cup {Form("", "mother", "F", "Yes", "Unknown", 0, "")}

ProbandNames == {"You (Proband)"}

ProbandAges == {0}

\* The sidebar number inputs (lines 222-226) accept values in [0, 1]; these
\* are the values tried for each.
PrevalenceInputs == {Rat(1, 1000), One}

CarrierFreqInputs == {Zero, Rat(1, 50), One}

PenetranceInputs == {Zero, Rat(4, 5), One}

DeNovoInputs == {Rat(1, 10000), One}

ValidBundles ==
    {InheritanceParams(pv, q, pen, dn) :
        pv \in PrevalenceInputs, q \in CarrierFreqInputs,
        pen \in PenetranceInputs, dn \in DeNovoInputs}

\* The values the sidebar shows at session start.
DefaultParams ==
    InheritanceParams(Rat(1, 1000), Rat(1, 50), One, Rat(1, 10000))

\* Values a caller of the engines can pass when nothing validates them.
UnvalidatedInputs == {Rat(-1, 2), One, Rat(3, 2)}

UnvalidatedBundles ==
    {InheritanceParams(pv, q, pen, dn) :
        pv \in UnvalidatedInputs, q \in UnvalidatedInputs,
        pen \in UnvalidatedInputs, dn \in UnvalidatedInputs}

-----------------------------------------------------------------------------
(* Session start and the two editing operations.                           *)

-----------------------------------------------------------------------------
(* PAM finder (src/genovate_backend.py lines 37-44 and 314-324).           *)

\* str.upper() on the characters that occur in the inputs.
Upper(ch) ==
    CASE ch = "a" -> "A" [] ch = "c" -> "C" [] ch = "g" -> "G"
      [] ch = "t" -> "T" [] ch = "n" -> "N" [] OTHER -> ch

UpperStr(s) == [k \in DOMAIN s |-> Upper(s[k])]

\* The characters a "." of a regular expression can match here.
AnyChar == {"A", "C", "G", "T", "N", "R", "Y", "V", "a", "c", "g", "t", "n", "."}

\* _IUPAC_MAP: each code's character class, as the set it matches.
IUPAC_MAP ==
    [R |-> {"A", "G"}, Y |-> {"C", "T"}, S |-> {"G", "C"}, W |-> {"A", "T"},
     K |-> {"G", "T"}, M |-> {"A", "C"}, B |-> {"C", "G", "T"},
     D |-> {"A", "G", "T"}, H |-> {"A", "C", "T"}, V |-> {"A", "C", "G"},
     N |-> {"A", "C", "G", "T"}]

\* What one character of the pattern string matches once compiled: a mapped
\* code its class, "." any character, any other character itself.
RegexAtom(ch) ==
    IF ch \in DOMAIN IUPAC_MAP THEN IUPAC_MAP[ch]
    ELSE IF ch = "." THEN AnyChar
    ELSE {ch}

\* _iupac_to_regex followed by re.compile: the motif is uppercased and each
\* character is replaced by _IUPAC_MAP.get(ch, ch), unescaped.
iupac_to_regex(motif) == [k \in DOMAIN motif |-> RegexAtom(Upper(motif[k]))]

\* rx.fullmatch(s) for a pattern of one-character atoms.
fullmatch(rx, s) == Len(s) = Len(rx) /\ \A k \in DOMAIN s : s[k] \in rx[k]

\* The loop of find_pam_sites from offset i on.
RECURSIVE ScanFrom(_, _, _, _)
ScanFrom(dna, rx, L, i) ==
    IF i >= Len(dna) - L + 1 THEN <<>>
    ELSE LET window == SubSeq(dna, i + 1, i + L)
         IN  (IF fullmatch(rx, window) THEN <<(<<i, window>>)>> ELSE <<>>)
                 \o ScanFrom(dna, rx, L, i + 1)

find_pam_sites(dna_sequence, pam) ==
    LET dna == UpperStr(dna_sequence)
        rx == iupac_to_regex(UpperStr(pam))
        L == Len(pam)
    IN  ScanFrom(dna, rx, L, 0)

finder_vars == <<dna_input, pam_motif, sites, clicked>>

\* The finder before anything was entered or searched.
FinderIdle ==
    /\ dna_input = <<>>
    /\ pam_motif = <<"N", "G", "G">>
    /\ sites = <<>>
    /\ clicked = FALSE

\* Lines 60-68, then the first run of the proband editor, which stores
\* the editor's widget values (age: value = p.age or 0).
Init ==
    /\ family = [k \in {proband_id} |->
                 Person("P0", "You (Proband)", "F", "self", None, None, 0, "",
                        <<>>)]
    /\ FinderIdle

\* The proband editor putting the record back under its display name.
EditedProband_StoresUnderName(persons, name, sex, affected, age, notes) ==
    LET p == persons[proband_id]
        q == [p EXCEPT !.name = name, !.sex = sex,
                       !.affected = TriOf(affected), !.age = age,
                       !.notes = notes]
    IN  [k \in DOMAIN persons \cup {q.name} |->
            IF k = q.name THEN q ELSE persons[k]]

\* The proband editor building a new Person from the widget values.
EditedProband_RebuildsPerson(persons, name, sex, affected, age, notes) ==
    LET p == persons[proband_id]
        q == Person(p.pid, name, sex, "self", TriOf(affected), None, age,
                    notes, <<>>)
    IN  [k \in DOMAIN persons \cup {q.pid} |->
            IF k = q.pid THEN q ELSE persons[k]]

\* The proband editor (lines 261-268): the widget values are stored in the
\* proband record, which is put back under its own pid.
EditedProband(persons, name, sex, affected, age, notes) ==
    LET p == persons[proband_id]
        q == [p EXCEPT !.name = name, !.sex = sex,
                       !.affected = TriOf(affected), !.age = age,
                       !.notes = notes]
    IN  [k \in DOMAIN persons \cup {q.pid} |->
            IF k = q.pid THEN q ELSE persons[k]]

EditProband(name, sex, affected, age, notes) ==
    /\ family' = EditedProband(family, name, sex, affected, age, notes)
    /\ UNCHANGED finder_vars

\* The handler linking a parent only while that parent's slot is empty.
WithRelative_KeepsFirstParent(persons, f) ==
    IF f.name = "" THEN persons
    ELSE
    LET pid == "P" \o ToString(Cardinality(DOMAIN persons))
        person == Person(pid, f.name, f.sex, f.relation, TriOf(f.affected),
                         TriOf(f.carrier),
                         IF f.age > 0 THEN f.age ELSE None, f.notes, <<>>)
        old == persons[proband_id].parents
        linked ==
            IF f.relation = "mother" /\ (old = <<>> \/ old[2] = None)
                THEN [persons EXCEPT ![proband_id].parents =
                        <<IF old # <<>> THEN old[1] ELSE None, pid>>]
            ELSE IF f.relation = "father" /\ (old = <<>> \/ old[1] = None)
                THEN [persons EXCEPT ![proband_id].parents =
                        <<pid, IF old # <<>> THEN old[2] ELSE None>>]
            ELSE persons
    IN  [k \in DOMAIN linked \cup {pid} |->
            IF k = pid THEN person ELSE linked[k]]

\* The handler writing a fresh parents list that holds only the new parent.
WithRelative_ResetsOtherSlot(persons, f) ==
    IF f.name = "" THEN persons
    ELSE
    LET pid == "P" \o ToString(Cardinality(DOMAIN persons))
        person == Person(pid, f.name, f.sex, f.relation, TriOf(f.affected),
                         TriOf(f.carrier),
                         IF f.age > 0 THEN f.age ELSE None, f.notes, <<>>)
        linked ==
            IF f.relation = "mother"
                THEN [persons EXCEPT ![proband_id].parents = <<None, pid>>]
            ELSE IF f.relation = "father"
                THEN [persons EXCEPT ![proband_id].parents = <<pid, None>>]
            ELSE persons
    IN  [k \in DOMAIN linked \cup {pid} |->
            IF k = pid THEN person ELSE linked[k]]

\* The handler numbering the new member from the last index in use.
WithRelative_ReusesLastId(persons, f) ==
    IF f.name = "" THEN persons
    ELSE
    LET pid == "P" \o ToString(Cardinality(DOMAIN persons) - 1)
        person == Person(pid, f.name, f.sex, f.relation, TriOf(f.affected),
                         TriOf(f.carrier),
                         IF f.age > 0 THEN f.age ELSE None, f.notes, <<>>)
        old == persons[proband_id].parents
        linked ==
            IF f.relation = "mother"
                THEN [persons EXCEPT ![proband_id].parents =
                        <<IF old # <<>> THEN old[1] ELSE None, pid>>]
            ELSE IF f.relation = "father"
                THEN [persons EXCEPT ![proband_id].parents =
                        <<pid, IF old # <<>> THEN old[2] ELSE None>>]
            ELSE persons
    IN  [k \in DOMAIN linked \cup {pid} |->
            IF k = pid THEN person ELSE linked[k]]

\* The handler acting on every submission, named or not.
WithRelative_NoNameCheck(persons, f) ==
    LET pid == "P" \o ToString(Cardinality(DOMAIN persons))
        person == Person(pid, f.name, f.sex, f.relation, TriOf(f.affected),
                         TriOf(f.carrier),
                         IF f.age > 0 THEN f.age ELSE None, f.notes, <<>>)
        old == persons[proband_id].parents
        linked ==
            IF f.relation = "mother"
                THEN [persons EXCEPT ![proband_id].parents =
                        <<IF old # <<>> THEN old[1] ELSE None, pid>>]
            ELSE IF f.relation = "father"
                THEN [persons EXCEPT ![proband_id].parents =
                        <<pid, IF old # <<>> THEN old[2] ELSE None>>]
            ELSE persons
    IN  [k \in DOMAIN linked \cup {pid} |->
            IF k = pid THEN person ELSE linked[k]]

\* The handler writing a new mother's id into the first slot and a new
\* father's id into the second.
WithRelative_CrossedSlots(persons, f) ==
    IF f.name = "" THEN persons
    ELSE
    LET pid == "P" \o ToString(Cardinality(DOMAIN persons))
        person == Person(pid, f.name, f.sex, f.relation, TriOf(f.affected),
                         TriOf(f.carrier),
                         IF f.age > 0 THEN f.age ELSE None, f.notes, <<>>)
        old == persons[proband_id].parents
        linked ==
            IF f.relation = "mother"
                THEN [persons EXCEPT ![proband_id].parents =
                        <<pid, IF old # <<>> THEN old[2] ELSE None>>]
            ELSE IF f.relation = "father"
                THEN [persons EXCEPT ![proband_id].parents =
                        <<IF old # <<>> THEN old[1] ELSE None, pid>>]
            ELSE persons
    IN  [k \in DOMAIN linked \cup {pid} |->
            IF k = pid THEN person ELSE linked[k]]

\* The handler giving a new sibling the proband's parents.
WithRelative_SiblingSharesParents(persons, f) ==
    IF f.name = "" THEN persons
    ELSE
    LET pid == "P" \o ToString(Cardinality(DOMAIN persons))
        old == persons[proband_id].parents
        person == Person(pid, f.name, f.sex, f.relation, TriOf(f.affected),
                         TriOf(f.carrier),
                         IF f.age > 0 THEN f.age ELSE None, f.notes,
                         IF f.relation = "sibling" THEN old ELSE <<>>)
        linked ==
            IF f.relation = "mother"
                THEN [persons EXCEPT ![proband_id].parents =
                        <<IF old # <<>> THEN old[1] ELSE None, pid>>]
            ELSE IF f.relation = "father"
                THEN [persons EXCEPT ![proband_id].parents =
                        <<pid, IF old # <<>> THEN old[2] ELSE None>>]
            ELSE persons
    IN  [k \in DOMAIN linked \cup {pid} |->
            IF k = pid THEN person ELSE linked[k]]

\* The add-relative handler (lines 281-304) on a store.
WithRelative(persons, f) ==
    IF f.name = "" THEN persons
    ELSE
    LET pid == "P" \o ToString(Cardinality(DOMAIN persons))
        person == Person(pid, f.name, f.sex, f.relation, TriOf(f.affected),
                         TriOf(f.carrier),
                         IF f.age > 0 THEN f.age ELSE None, f.notes, <<>>)
        old == persons[proband_id].parents
        linked ==
            IF f.relation = "mother"
                THEN [persons EXCEPT ![proband_id].parents =
                        <<IF old # <<>> THEN old[1] ELSE None, pid>>]
            ELSE IF f.relation = "father"
                THEN [persons EXCEPT ![proband_id].parents =
                        <<pid, IF old # <<>> THEN old[2] ELSE None>>]
            ELSE persons
    IN  [k \in DOMAIN linked \cup {pid} |->
            IF k = pid THEN person ELSE linked[k]]

AddRelative(f) ==
    /\ Cardinality(DOMAIN family) <= MaxRelatives
    /\ family' = WithRelative(family, f)
    /\ UNCHANGED finder_vars

Next ==
    \/ \E nm \in ProbandNames, sx \in {"F", "M"}, aff \in TriChoices,
          age \in ProbandAges :
            EditProband(nm, sx, aff, age, "")
    \/ \E f \in FormInputs : AddRelative(f)

Spec == Init /\ [][Next]_vars

\* The reruns that change what the engines read: the engines use the
\* proband's sex and no other field of the proband, so the editor changes
\* the sex alone.
EditProbandSex(sex) == EditProband("You (Proband)", sex, "Unknown", 0, "")

NextPedigree ==
    \/ \E sx \in {"F", "M"} : EditProbandSex(sx)
    \/ \E f \in FormInputs : AddRelative(f)

SpecPedigree == Init /\ [][NextPedigree]_vars

-----------------------------------------------------------------------------
(* Properties.                                                             *)

Proband == family[proband_id]

Father == get_parent(family, proband_id, "father")

Mother == get_parent(family, proband_id, "mother")

FatherAffected == IsPerson(Father) /\ Father.affected = "True"

MotherAffected == IsPerson(Mother) /\ Mother.affected = "True"

Siblings == {k \in DOMAIN family : family[k].relation = "sibling"}

AffectedSiblings == {k \in Siblings : family[k].affected = "True"}

\* The store with member k's affected status set to v.
WithAffected(persons, k, v) == [persons EXCEPT ![k].affected = v]

EngineKeys == {PATTERN_ENGINES[i] : i \in DOMAIN PATTERN_ENGINES}

\* b with its penetrance replaced.
WithPenetrance(b, pen) == [b EXCEPT !.penetrance = pen]

AR(b) == prob_proband_AR(family, Proband, b)

AD(b) == prob_proband_AD(family, Proband, b)

XLR(b) == prob_proband_XLR(family, Proband, b)

XLD(b) == prob_proband_XLD(family, Proband, b)

MITO(b) == prob_proband_MITO(family, Proband, b)

\* C1: in every reachable pedigree, for each of the five patterns and every
\* sidebar bundle with all four values in [0,1], the computed risk is a
\* number in [0,1]; for the pattern without an engine it is None.
C1_RiskInRange ==
    \A b \in ValidBundles :
        /\ \A pat \in EngineKeys : InUnit(compute_risk(pat, family, b))
        /\ IsNone(compute_risk(KeyCustom, family, b))

\* A pedigree with a replaced mother, an affected sibling and a male
\* proband, in which a risk reaches the upper end of the range.
C1_Witness ==
    /\ Cardinality(DOMAIN family) = 4
    /\ Proband.sex = "M"
    /\ MotherAffected
    /\ Mother.pid = "P3"
    /\ family["P2"].relation = "mother"
    /\ AffectedSiblings # {}
    /\ REq(compute_risk(KeyMITO, family, DefaultParams), One)
    /\ REq(compute_risk(KeyXLD, family, DefaultParams), Half)

\* C2: for any numeric parameter values, also outside [0,1], and any
\* pedigree, each of the five per-pattern functions returns a value in
\* [0,1].
C2_EnginesClamped ==
    \A b \in UnvalidatedBundles :
        /\ InUnit(AR(b))
        /\ InUnit(AD(b))
        /\ InUnit(XLR(b))
        /\ InUnit(XLD(b))
        /\ InUnit(MITO(b))

\* The probabilities the page can show in this state, and the boundary
\* values of the buckets.
ShownRisks ==
    {compute_risk(pat, family, DefaultParams) : pat \in PatternOptions}
        \cup {compute_risk(KeyXLR, family,
                           [DefaultParams EXCEPT !.carrier_freq = Rat(1, 5)])}
        \cup {NoneFloat, Rat(1, 100), Rat(1, 10), Rat(99, 10000),
              Rat(999, 10000), Zero, One}

\* C3: risk_bucket(p) is "Low" exactly when p < 0.01, "Moderate" exactly
\* when 0.01 <= p < 0.10, "High" exactly when p >= 0.10 and "Unknown"
\* exactly when p is None; 0.01 gives "Moderate" and 0.10 gives "High".
C3_BucketThresholds ==
    /\ \A p \in ShownRisks :
        /\ risk_bucket(p) = "Unknown" <=> IsNone(p)
        /\ risk_bucket(p) = "Low" <=> (~IsNone(p) /\ RLt(p, Rat(1, 100)))
        /\ risk_bucket(p) = "Moderate"
              <=> (~IsNone(p) /\ RLe(Rat(1, 100), p) /\ RLt(p, Rat(1, 10)))
        /\ risk_bucket(p) = "High" <=> (~IsNone(p) /\ RLe(Rat(1, 10), p))
    /\ risk_bucket(Rat(1, 100)) = "Moderate"
    /\ risk_bucket(Rat(1, 10)) = "High"

\* A male proband without a recorded mother: the XLR risk at the default
\* sidebar values is exactly 0.01, and exactly 0.10 at carrier_freq 0.2.
C3_Witness ==
    /\ Proband.sex = "M"
    /\ ~IsPerson(Mother)
    /\ REq(compute_risk(KeyXLR, family, DefaultParams), Rat(1, 100))
    /\ risk_bucket(compute_risk(KeyXLR, family, DefaultParams)) = "Moderate"
    /\ REq(compute_risk(KeyXLR, family,
                        [DefaultParams EXCEPT !.carrier_freq = Rat(1, 5)]),
           Rat(1, 10))
    /\ risk_bucket(compute_risk(KeyAD, family, DefaultParams)) = "Low"
    /\ risk_bucket(compute_risk(KeyCustom, family, DefaultParams)) = "Unknown"

\* C4: for every pattern, pedigree and prevalence, carrier_freq and
\* de_novo_rate in [0,1], penetrance p1 <= p2 gives risk(p1) <= risk(p2)
\* (for p1 = p2 the two risks are the same evaluation).
C4_PenetranceMonotone ==
    \A b \in ValidBundles, p2 \in PenetranceInputs, pat \in EngineKeys :
        RLt(b.penetrance, p2) =>
            RLe(compute_risk(pat, family, b),
                compute_risk(pat, family, WithPenetrance(b, p2)))

\* An affected father: the AD risk rises strictly with penetrance.
C4_Witness ==
    /\ FatherAffected
    /\ REq(AD(WithPenetrance(DefaultParams, Zero)), Zero)
    /\ REq(AD(WithPenetrance(DefaultParams, Rat(4, 5))), Rat(2, 5))
    /\ REq(AD(DefaultParams), Half)

\* C5: whenever the recorded father and the recorded mother are both
\* Affected, prob_proband_AR is 0.25 x penetrance for every carrier_freq,
\* whatever siblings exist or are affected.
C5_AR_ObligateCarrier ==
    (FatherAffected /\ MotherAffected) =>
        \A b \in ValidBundles : REq(AR(b), RMul(Quarter, b.penetrance))

\* Both parents affected and an affected sibling recorded as well.
C5_Witness ==
    /\ FatherAffected
    /\ MotherAffected
    /\ AffectedSiblings # {}
    /\ REq(AR(DefaultParams), Quarter)

\* C6: whenever a sibling is Affected and neither recorded parent is, both
\* carrier probabilities are max(carrier_freq, 2/3), so the AR risk is
\* max(q, 2/3)^2 x 0.25 x penetrance >= (2/3)^2 x 0.25 x penetrance; with
\* carrier_freq 0.02 and penetrance 1.0 it is exactly 1/9, bucket "High".
C6_AR_PromotionFloor ==
    (AffectedSiblings # {} /\ ~FatherAffected /\ ~MotherAffected) =>
        /\ \A b \in ValidBundles :
            LET c == RMax(b.carrier_freq, TwoThirds) IN
            /\ REq(AR(b), RMul(RMul(RMul(c, c), Quarter), b.penetrance))
            /\ RLe(RMul(RMul(RMul(TwoThirds, TwoThirds), Quarter),
                        b.penetrance),
                   AR(b))
        /\ REq(AR(DefaultParams), Rat(1, 9))
        /\ risk_bucket(AR(DefaultParams)) = "High"

\* An affected sibling, both parents recorded and neither affected.
C6_Witness ==
    /\ AffectedSiblings # {}
    /\ IsPerson(Father) /\ Father.affected = "None"
    /\ IsPerson(Mother) /\ Mother.affected = "False"
    /\ REq(AR(DefaultParams), Rat(1, 9))

\* C7: the sibling promotion never lowers a carrier probability: with
\* exactly one parent Affected and a sibling Affected the AR risk is
\* 1.0 x max(carrier_freq, 2/3) x 0.25 x penetrance, and in every pedigree
\* the AR risk with an affected sibling is at least the AR risk of the same
\* pedigree with that sibling marked not affected.
C7_AR_NoDowngrade ==
    \A b \in ValidBundles :
        /\ (AffectedSiblings # {} /\ (FatherAffected # MotherAffected)) =>
              REq(AR(b),
                  RMul(RMul(RMul(One, RMax(b.carrier_freq, TwoThirds)),
                            Quarter),
                       b.penetrance))
        /\ \A k \in AffectedSiblings :
              RLe(prob_proband_AR(WithAffected(family, k, "False"),
                                  Proband, b),
                  AR(b))

\* One affected parent and one affected sibling: the risk is 1/6 at the
\* default values, above the 1/9 of a promotion that overwrote.
C7_Witness ==
    /\ AffectedSiblings # {}
    /\ MotherAffected
    /\ IsPerson(Father) /\ ~FatherAffected
    /\ REq(AR(DefaultParams), Rat(1, 6))

\* C8: whenever neither recorded parent is Affected (missing, Unknown or
\* Unaffected), prob_proband_AD is exactly de_novo_rate x penetrance; the
\* default values give 0.0001, bucket "Low".
C8_AD_Fallback ==
    (~FatherAffected /\ ~MotherAffected) =>
        /\ \A b \in ValidBundles :
              REq(AD(b), RMul(b.de_novo_rate, b.penetrance))
        /\ REq(AD(DefaultParams), Rat(1, 10000))
        /\ risk_bucket(AD(DefaultParams)) = "Low"

\* A father of unknown status and an unaffected mother are recorded.
C8_Witness ==
    /\ IsPerson(Father) /\ Father.affected = "None"
    /\ IsPerson(Mother) /\ Mother.affected = "False"
    /\ REq(AD(DefaultParams), Rat(1, 10000))

\* C9: whenever at least one recorded parent is Affected, prob_proband_AD
\* is 0.5 x penetrance, with one affected parent as with two, and whatever
\* de_novo_rate is.
C9_AD_AffectedParent ==
    (FatherAffected \/ MotherAffected) =>
        \A b \in ValidBundles : REq(AD(b), RMul(Half, b.penetrance))

\* Both parents affected: the risk is 0.5, not 1.0.
C9_Witness ==
    /\ FatherAffected
    /\ MotherAffected
    /\ REq(AD(DefaultParams), Half)

\* Whether the recorded mother is a known carrier or affected.
MotherCarrierOrAffected ==
    IsPerson(Mother) /\ (Mother.carrier = "True" \/ Mother.affected = "True")

\* C10: for a male proband the XLR risk is 0.5 x cm x penetrance, cm = 1.0
\* if the recorded mother is a known Carrier or Affected and carrier_freq
\* otherwise; the father's status has no effect; a mother marked Carrier
\* and penetrance 1.0 give 0.5, bucket "High".
C10_XLR_Male ==
    Proband.sex = "M" =>
        /\ \A b \in ValidBundles :
            /\ REq(XLR(b),
                   RMul(RMul(Half, IF MotherCarrierOrAffected
                                       THEN One ELSE b.carrier_freq),
                        b.penetrance))
            /\ IsPerson(Father) =>
                  \A v \in Tri :
                      REq(prob_proband_XLR(
                              WithAffected(family, Father.pid, v),
                              Proband, b),
                          XLR(b))
        /\ (IsPerson(Mother) /\ Mother.carrier = "True") =>
              /\ REq(XLR(DefaultParams), Half)
              /\ risk_bucket(XLR(DefaultParams)) = "High"

\* A male proband whose mother is marked Carrier and not affected, with an
\* affected father recorded.
C10_Witness ==
    /\ Proband.sex = "M"
    /\ IsPerson(Mother) /\ Mother.carrier = "True"
    /\ Mother.affected = "None"
    /\ FatherAffected
    /\ REq(XLR(DefaultParams), Half)

\* C11: for a female proband the XLR risk is cf x cm x 0.25 x penetrance,
\* cf = 1.0 if the recorded father is Affected and 0.0 otherwise, cm = 1.0
\* if the recorded mother is a known Carrier or Affected and carrier_freq
\* otherwise; so the risk is 0 whenever the father is missing, Unknown or
\* Unaffected, whatever carrier_freq and the mother's status are.
C11_XLR_Female ==
    Proband.sex = "F" =>
        \A b \in ValidBundles :
            /\ REq(XLR(b),
                   RMul(RMul(RMul(IF FatherAffected THEN One ELSE Zero,
                                  IF MotherCarrierOrAffected
                                      THEN One ELSE b.carrier_freq),
                             Quarter),
                        b.penetrance))
            /\ ~FatherAffected => REq(XLR(b), Zero)

\* A female proband with an affected father and a mother marked Carrier:
\* the risk at the default values is 0.25.
C11_Witness ==
    /\ Proband.sex = "F"
    /\ FatherAffected
    /\ IsPerson(Mother) /\ Mother.carrier = "True" /\ ~MotherAffected
    /\ REq(XLR(DefaultParams), Quarter)

C13_XLD_Female ==
    Proband.sex = "F" =>
        \A b \in ValidBundles :
            REq(XLD(b),
                RMul(IF FatherAffected THEN One
                     ELSE IF MotherAffected THEN Half
                     ELSE b.de_novo_rate,
                     b.penetrance))

\* A female proband with both parents affected: the risk is 1.0.
C13_Witness ==
    /\ Proband.sex = "F"
    /\ FatherAffected
    /\ MotherAffected
    /\ REq(XLD(DefaultParams), One)

\* C14: the MITO risk is 1.0 x penetrance if the recorded mother is
\* Affected (0.8 for penetrance 0.8, bucket "High") and prevalence x
\* penetrance otherwise; father, siblings, the proband's sex, carrier_freq
\* and de_novo_rate do not enter.
C14_MITO ==
    /\ \A b \in ValidBundles :
          REq(MITO(b),
              RMul(IF MotherAffected THEN One ELSE b.prevalence,
                   b.penetrance))
    /\ MotherAffected =>
          LET r == MITO(WithPenetrance(DefaultParams, Rat(4, 5))) IN
          /\ REq(r, Rat(4, 5))
          /\ risk_bucket(r) = "High"

\* An affected mother, with an unaffected father and an affected sibling
\* recorded: the risk at penetrance 0.8 is 0.8.
C14_Witness ==
    /\ MotherAffected
    /\ IsPerson(Father) /\ ~FatherAffected
    /\ AffectedSiblings # {}
    /\ REq(MITO(WithPenetrance(DefaultParams, Rat(4, 5))), Rat(4, 5))

\* C15: for each of the five selectable pattern names the dispatch picks
\* the engine registered under that name, and for "Custom (manual
\* override)" it picks none: the probability is None and the badge shows
\* "Unknown" and no number.
C15_PatternDispatch ==
    /\ \A i \in DOMAIN PATTERN_ENGINES :
        /\ SelectedEngine(PATTERN_ENGINES[i]) = i
        /\ compute_risk(PATTERN_ENGINES[i], family, DefaultParams)
              = ApplyEngine(i, family, Proband, DefaultParams)
    /\ SelectedEngine(KeyCustom) = 0
    /\ IsNone(compute_risk(KeyCustom, family, DefaultParams))
    /\ badge(compute_risk(KeyCustom, family, DefaultParams))
          = [cls |-> "", label |-> "Unknown", pct |-> None]

\* A pedigree in which the five engines give five different risks at the
\* default values, each shown under its own pattern name.
C15_Witness ==
    /\ Proband.sex = "F"
    /\ FatherAffected
    /\ IsPerson(Mother) /\ Mother.carrier = "True" /\ ~MotherAffected
    /\ REq(compute_risk(KeyAR, family, DefaultParams), Rat(1, 200))
    /\ REq(compute_risk(KeyAD, family, DefaultParams), Half)
    /\ REq(compute_risk(KeyXLR, family, DefaultParams), Quarter)
    /\ REq(compute_risk(KeyXLD, family, DefaultParams), One)
    /\ REq(compute_risk(KeyMITO, family, DefaultParams), Rat(1, 1000))
    /\ badge(compute_risk(KeyAD, family, DefaultParams))
          = [cls |-> "high", label |-> "High", pct |-> 500]

\* The ids in the parent slots of member pid.
ParentIds(persons, pid) ==
    {persons[pid].parents[i] : i \in DOMAIN persons[pid].parents} \ {None}

\* The store without the records the proband's parent slots name: the
\* slots then name ids that are absent from the store.
Dangling(persons) ==
    [k \in DOMAIN persons \ ParentIds(persons, proband_id) |-> persons[k]]

\* Neither parent lookup of the proband finds a person.
NoParentInfo(persons) ==
    /\ ~IsPerson(get_parent(persons, proband_id, "father"))
    /\ ~IsPerson(get_parent(persons, proband_id, "mother"))

\* The store of this state if it records no parents, else its dangling
\* variant.
ParentlessStore == IF NoParentInfo(family) THEN family ELSE Dangling(family)

\* C16: when the proband has no recorded parents (no parents, an empty
\* slot, or a slot naming an id absent from the store) and no affected
\* sibling, every engine returns the population default: AR = carrier_freq^2
\* x 0.25 x penetrance, AD = de_novo_rate x penetrance, XLR (male proband)
\* = 0.5 x carrier_freq x penetrance, XLD = de_novo_rate x penetrance,
\* MITO = prevalence x penetrance.
C16_MissingData ==
    LET persons == ParentlessStore
        proband == persons[proband_id]
    IN  (NoParentInfo(persons) /\ AffectedSiblings = {}) =>
            \A b \in ValidBundles :
                /\ REq(prob_proband_AR(persons, proband, b),
                       RMul(RMul(RMul(b.carrier_freq, b.carrier_freq),
                                 Quarter),
                            b.penetrance))
                /\ REq(prob_proband_AD(persons, proband, b),
                       RMul(b.de_novo_rate, b.penetrance))
                /\ proband.sex = "M" =>
                      REq(prob_proband_XLR(persons, proband, b),
                          RMul(RMul(Half, b.carrier_freq), b.penetrance))
                /\ REq(prob_proband_XLD(persons, proband, b),
                       RMul(b.de_novo_rate, b.penetrance))
                /\ REq(prob_proband_MITO(persons, proband, b),
                       RMul(b.prevalence, b.penetrance))

\* A male proband whose mother slot names an affected mother and whose
\* father slot is empty: once the mother's record is absent, the lookups
\* find nobody and the AR risk at the default values is 0.0001.
C16_Witness ==
    /\ Proband.sex = "M"
    /\ Proband.parents = <<None, "P1">>
    /\ MotherAffected
    /\ AffectedSiblings = {}
    /\ "P1" \notin DOMAIN Dangling(family)
    /\ NoParentInfo(Dangling(family))
    /\ REq(prob_proband_AR(Dangling(family), Proband, DefaultParams),
           Rat(1, 10000))
    /\ REq(prob_proband_MITO(Dangling(family), Proband, DefaultParams),
           Rat(1, 1000))

\* The step is a successful submission of form f.
Added(f) == f.name # "" /\ family' = WithRelative(family, f)

\* The members the step stored under keys that were not in use.
NewKeys == DOMAIN family' \ DOMAIN family

\* The person stored by the step is the one the form describes.
IsSubmitted(person, f) ==
    /\ person.name = f.name
    /\ person.relation = f.relation
    /\ person.sex = f.sex
    /\ person.affected = TriOf(f.affected)
    /\ person.carrier = TriOf(f.carrier)

\* The lookup of the proband's parent of the given role after the step
\* returns the member the step has just stored.
ReturnsNewMember(role, f) ==
    LET found == get_parent(family', proband_id, role)
    IN  /\ found.pid \in NewKeys
        /\ found = family'[found.pid]
        /\ IsSubmitted(found, f)

\* C17: every successful add of a "mother" makes get_parent(proband,
\* "mother") return exactly the relative just added, also when a mother was
\* linked before (the second addition replaces the link); the same holds
\* for "father".
C17_ParentRoundTrip ==
    [][\A f \in NamedInputs :
          Added(f) =>
              /\ f.relation = "mother" => ReturnsNewMember("mother", f)
              /\ f.relation = "father" => ReturnsNewMember("father", f)]_vars

\* Two mothers were added one after the other and the lookup returns the
\* second, whose record differs from the first.
C17_Witness ==
    /\ {"P1", "P2"} \subseteq DOMAIN family
    /\ family["P1"].relation = "mother"
    /\ family["P2"].relation = "mother"
    /\ family["P1"].affected # family["P2"].affected
    /\ Mother.pid = "P2"
    /\ Mother = family["P2"]

\* The id in slot i (1 = father, 2 = mother) of the proband's parents, None
\* when no parents are recorded.
Slot(persons, i) ==
    LET ps == persons[proband_id].parents
    IN  IF ps = <<>> THEN None ELSE ps[i]

\* C18: a successful add of a "mother" sets the proband's mother slot to
\* the new id and leaves the father slot as it was; a successful add of a
\* "father" sets the father slot and leaves the mother slot as it was.
C18_ParentLinkFrame ==
    [][\A f \in NamedInputs :
          Added(f) =>
              /\ f.relation = "mother" =>
                    /\ Slot(family', 2) \in NewKeys
                    /\ Slot(family', 1) = Slot(family, 1)
              /\ f.relation = "father" =>
                    /\ Slot(family', 1) \in NewKeys
                    /\ Slot(family', 2) = Slot(family, 2)]_vars

\* Both parents are linked, in either order of adding them, and a later
\* add of the other parent has kept the earlier link.
C18_Witness ==
    /\ {"P1", "P2"} \subseteq DOMAIN family
    /\ \/ /\ Proband.parents = <<"P1", "P2">>
          /\ family["P1"].relation = "father"
          /\ family["P2"].relation = "mother"
       \/ /\ Proband.parents = <<"P2", "P1">>
          /\ family["P1"].relation = "mother"
          /\ family["P2"].relation = "father"
    /\ Father.pid = Slot(family, 1)
    /\ Mother.pid = Slot(family, 2)

\* An id no add has assigned.
AbsentId == "P9"

\* The stores get_parent is examined on: the store of this state and its
\* dangling variant.
LookupStores == {family, Dangling(family)}

\* The slot index of a role.
RoleSlot(role) == IF role = "father" THEN 1 ELSE 2

\* C19: get_parent returns None when pid is not in the store, when the
\* person has no recorded parents, when the slot of the role is empty and
\* when the slot names an id absent from the store; otherwise it returns
\* the Person stored under the id in the role's slot.
C19_GetParent ==
    \A persons \in LookupStores :
      \A role \in {"father", "mother"} :
        /\ get_parent(persons, AbsentId, role).pid = None
        /\ \A pid \in DOMAIN persons :
            LET ps == persons[pid].parents
                found == get_parent(persons, pid, role)
            IN  /\ ps = <<>> => found.pid = None
                /\ (ps # <<>> /\ ps[RoleSlot(role)] = None) =>
                        found.pid = None
                /\ (ps # <<>> /\ ps[RoleSlot(role)] # None
                      /\ ps[RoleSlot(role)] \notin DOMAIN persons) =>
                        found.pid = None
                /\ (ps # <<>> /\ ps[RoleSlot(role)] \in DOMAIN persons) =>
                        /\ found.pid = ps[RoleSlot(role)]
                        /\ found = persons[ps[RoleSlot(role)]]

\* The proband has a linked mother and an empty father slot: the mother
\* lookup returns her record, the father lookup returns None, a relative
\* without parents has none, and with her record absent the mother lookup
\* returns None as well.
C19_Witness ==
    /\ Proband.parents = <<None, "P1">>
    /\ "P2" \in DOMAIN family
    /\ family["P2"].parents = <<>>
    /\ get_parent(family, proband_id, "mother") = family["P1"]
    /\ get_parent(family, proband_id, "father").pid = None
    /\ get_parent(family, "P2", "mother").pid = None
    /\ get_parent(Dangling(family), proband_id, "mother").pid = None
    /\ get_parent(family, AbsentId, "mother").pid = None

\* Every stored Person's pid is the key it is stored under.
PidIsKey(persons) == \A k \in DOMAIN persons : persons[k].pid = k

\* The step leaves member k as it was.
Untouched(k) == k \in DOMAIN family' /\ family'[k] = family[k]

\* The step changes at most the parents field of the proband.
ProbandKeptButParents ==
    /\ proband_id \in DOMAIN family'
    /\ family'[proband_id] =
          [family[proband_id] EXCEPT !.parents = family'[proband_id].parents]

\* C20 as stated: ids stay distinct keys equal to the stored pid, a
\* successful add grows the store by exactly one member, and an add changes
\* no stored member, the proband included.
C20_AddChangesNoMember ==
    [][/\ PidIsKey(family) /\ PidIsKey(family')
       /\ \A f \in NamedInputs :
            Added(f) =>
                /\ Cardinality(DOMAIN family') =
                      Cardinality(DOMAIN family) + 1
                /\ \A k \in DOMAIN family : Untouched(k)]_vars

\* C20 amended: every member's id is the distinct key it is stored under, a
\* successful add grows the store by exactly one member under a key not in
\* use, and it changes no stored member except the parents field of the
\* proband, which only an add of a "mother" or a "father" rewrites.
C20_FreshIds ==
    [][/\ PidIsKey(family) /\ PidIsKey(family')
       /\ \A f \in NamedInputs :
            Added(f) =>
                /\ Cardinality(DOMAIN family') =
                      Cardinality(DOMAIN family) + 1
                /\ Cardinality(NewKeys) = 1
                /\ \A k \in DOMAIN family \ {proband_id} : Untouched(k)
                /\ ProbandKeptButParents
                /\ f.relation \notin {"mother", "father"} =>
                      Untouched(proband_id)]_vars

\* Three relatives were added under the ids P1, P2, P3 next to the proband
\* P0, who is still the "self" member and whose parents name the added
\* mother.
C20_Witness ==
    /\ DOMAIN family = {"P0", "P1", "P2", "P3"}
    /\ PidIsKey(family)
    /\ Proband.relation = "self"
    /\ family["P1"].relation = "sibling"
    /\ family["P2"].relation = "cousin"
    /\ family["P3"].relation = "mother"
    /\ Proband.parents = <<None, "P3">>

\* At session start the store holds the proband alone, with affected and
\* carrier both Unknown.
ProbandCreated ==
    /\ DOMAIN family = {proband_id}
    /\ family[proband_id].affected = None
    /\ family[proband_id].carrier = None

\* The proband is stored under proband_id with that pid, is the only
\* member of relation "self", and its carrier status is still Unknown.
ProbandKept ==
    /\ proband_id \in DOMAIN family
    /\ family[proband_id].pid = proband_id
    /\ family[proband_id].carrier = None
    /\ \A k \in DOMAIN family : family[k].relation = "self" <=> k = proband_id

\* C21: the session starts with the proband alone, affected and carrier
\* Unknown, and in every state reachable by adds and proband edits the
\* store holds the proband under proband_id as the only member of relation
\* "self"; no step removes it or puts another Person in its place.
C21_ProbandInvariant ==
    /\ ProbandCreated
    /\ []ProbandKept
    /\ [][/\ proband_id \in DOMAIN family'
          /\ family'[proband_id].pid = family[proband_id].pid
          /\ family'[proband_id].relation = family[proband_id].relation]_vars

\* Three relatives, a linked mother among them, were added and the proband
\* was edited to an affected male: it is still the "self" member under P0.
C21_Witness ==
    /\ Cardinality(DOMAIN family) = 4
    /\ Mother.pid \in DOMAIN family \ {proband_id}
    /\ Proband.sex = "M"
    /\ Proband.affected = "True"
    /\ ProbandKept

\* Submissions of the add-relative form with the name left empty.
EmptyNameInputs ==
    {Form("", r, sx, "Yes", "Yes", 30, "note") :
        r \in {"mother", "father", "sibling"}, sx \in {"F", "M"}}

\* C22: submitting the add-relative form with an empty name leaves the
\* whole store as it was: no member is added, no id is consumed and the
\* proband's parents are not rewritten, also for relation "mother" or
\* "father".
C22_EmptyNameNoOp ==
    \A f \in EmptyNameInputs :
        LET after == WithRelative(family, f)
        IN  /\ DOMAIN after = DOMAIN family
            /\ after[proband_id].parents = family[proband_id].parents
            /\ after = family
            /\ \A g \in NamedInputs :
                  DOMAIN WithRelative(after, g) \ DOMAIN family
                      = {"P" \o ToString(Cardinality(DOMAIN family))}

\* A father is linked and the mother slot is empty: an unnamed "mother"
\* submission leaves the slot empty and the store at two members.
C22_Witness ==
    /\ Proband.parents = <<"P1", None>>
    /\ DOMAIN family = {"P0", "P1"}
    /\ \E f \in EmptyNameInputs :
          /\ f.relation = "mother"
          /\ WithRelative(family, f) = family

-----------------------------------------------------------------------------
(* The PAM finder as a state machine (src/streamlit_app.py lines 349-363). *)

MaxSeqLen == 3

Bases == {"A", "C", "G", "T", "g"}

RECURSIVE StringsUpTo(_, _)
StringsUpTo(alphabet, n) ==
    IF n = 0 THEN {<<>>}
    ELSE LET shorter == StringsUpTo(alphabet, n - 1)
         IN  shorter \cup {Append(s, ch) : s \in shorter, ch \in alphabet}

SequenceInputs == StringsUpTo(Bases, MaxSeqLen)

MotifInputs ==
    {<<>>, <<"N", "G", "G">>, <<"n", "g", "g">>, <<"G", "G">>, <<"R">>,
     <<"Y", "G">>, <<"V", "G">>, <<".">>}

InitFinder ==
    /\ family = [k \in {proband_id} |->
                    Person("P0", "You (Proband)", "F", "self", None, None, 0,
                           "", <<>>)]
    /\ dna_input \in SequenceInputs
    /\ pam_motif \in MotifInputs
    /\ sites = <<>>
    /\ clicked = FALSE

\* The button: sites = find_pam_sites(dna_input.upper(), pam=pam_motif).
FindPamSites ==
    /\ sites' = find_pam_sites(UpperStr(dna_input), pam_motif)
    /\ clicked' = TRUE
    /\ UNCHANGED <<family, dna_input, pam_motif>>

\* A rerun of the script in which the button was not pressed: the inputs
\* keep their text and no sites are shown.
RerunWithoutSearch ==
    /\ clicked
    /\ sites' = <<>>
    /\ clicked' = FALSE
    /\ UNCHANGED <<family, dna_input, pam_motif>>

NextFinder ==
    \/ FindPamSites
    \/ RerunWithoutSearch

SpecFinder == InitFinder /\ [][NextFinder]_vars

\* Values of the proband editor's widgets.
EditorNames == {"You (Proband)", "Sam"}

EditorAges == {0, 37}

EditorNotes == {"", "note"}

\* C23: editing the proband stores the entered name, sex, affected status,
\* age and notes and leaves its id, its relation "self", its carrier status
\* and its parent links as they were; the store keeps its keys and every
\* other member is unchanged.
C23_ProbandEditFrame ==
    \A nm \in EditorNames, sx \in {"F", "M"}, aff \in TriChoices,
       age \in EditorAges, nt \in EditorNotes :
        LET after == EditedProband(family, nm, sx, aff, age, nt)
            p == family[proband_id]
            q == after[proband_id]
        IN  /\ DOMAIN after = DOMAIN family
            /\ q.name = nm /\ q.sex = sx /\ q.affected = TriOf(aff)
            /\ q.age = age /\ q.notes = nt
            /\ q.pid = p.pid
            /\ q.relation = p.relation
            /\ q.carrier = p.carrier
            /\ q.parents = p.parents
            /\ \A k \in DOMAIN family \ {proband_id} : after[k] = family[k]

\* Both parents are linked and the proband has been edited to an
\* unaffected male: the links, the relation and the carrier status are as
\* the adds left them.
C23_Witness ==
    /\ Proband.sex = "M"
    /\ Proband.affected = "False"
    /\ Proband.parents = <<"P2", "P1">>
    /\ Proband.relation = "self"
    /\ Proband.carrier = None
    /\ EditedProband(family, "Sam", "F", "Yes", 37, "note")[proband_id].parents
          = <<"P2", "P1">>

\* The bases an IUPAC nucleotide code stands for; a character that is not
\* a code stands for itself.
IupacBases(code) ==
    CASE code = "A" -> {"A"} [] code = "C" -> {"C"} [] code = "G" -> {"G"}
      [] code = "T" -> {"T"}
      [] code = "R" -> {"A", "G"} [] code = "Y" -> {"C", "T"}
      [] code = "S" -> {"C", "G"} [] code = "W" -> {"A", "T"}
      [] code = "K" -> {"G", "T"} [] code = "M" -> {"A", "C"}
      [] code = "B" -> {"C", "G", "T"} [] code = "D" -> {"A", "G", "T"}
      [] code = "H" -> {"A", "C", "T"} [] code = "V" -> {"A", "C", "G"}
      [] code = "N" -> {"A", "C", "G", "T"}
      [] OTHER -> {code}

\* The uppercased window of the motif's length at offset o of the sequence.
WindowAt(o) == SubSeq(UpperStr(dna_input), o + 1, o + Len(pam_motif))

\* The window at offset o matches the motif position by position.
MatchesAt(o) ==
    \A k \in 1..Len(pam_motif) :
        WindowAt(o)[k] \in IupacBases(Upper(pam_motif[k]))

\* The offsets the finder has to report.
MatchingOffsets ==
    {o \in 0..(Len(dna_input) - Len(pam_motif)) : MatchesAt(o)}

\* C24: find_pam_sites returns, in ascending offset order, exactly the
\* pairs (i, window) for the offsets i in 0..len(sequence)-len(pam) whose
\* uppercased window matches the motif position by position under the IUPAC
\* codes, overlapping occurrences included, and the empty list for an empty
\* sequence or one shorter than the motif.
C24_FindPamSites ==
    clicked =>
        /\ {sites[k][1] : k \in DOMAIN sites} = MatchingOffsets
        /\ \A k \in DOMAIN sites : sites[k][2] = WindowAt(sites[k][1])
        /\ \A j, k \in DOMAIN sites : j < k => sites[j][1] < sites[k][1]
        /\ (dna_input = <<>> \/ Len(dna_input) < Len(pam_motif)) =>
              sites = <<>>

\* Slot i of a parents list is empty or names a stored member of the given
\* relation.
SlotSound(ps, i, relation) ==
    \/ ps[i] = None
    \/ /\ ps[i] \in DOMAIN family
       /\ family[ps[i]].relation = relation

\* C25: the proband's parents field is empty or has exactly the two slots
\* [father, mother]; a slot is empty or holds the id of a stored member
\* whose relation is "father" (first slot) or "mother" (second slot).
C25_ParentLinkIntegrity ==
    LET ps == family[proband_id].parents
    IN  \/ ps = <<>>
        \/ /\ Len(ps) = 2
           /\ SlotSound(ps, 1, "father")
           /\ SlotSound(ps, 2, "mother")

\* A mother, a father and a second father were added: the slots name the
\* mother and the second father, the first father is no longer linked.
C25_Witness ==
    /\ DOMAIN family = {"P0", "P1", "P2", "P3"}
    /\ family["P1"].relation = "mother"
    /\ family["P2"].relation = "father"
    /\ family["P3"].relation = "father"
    /\ Proband.parents = <<"P3", "P1">>

\* C26: every member other than the proband has an empty parents field, so
\* get_parent finds neither a father nor a mother for it, whichever
\* relatives have been added.
C26_OnlyProbandHasParents ==
    \A k \in DOMAIN family \ {proband_id} :
        /\ family[k].parents = <<>>
        /\ get_parent(family, k, "father").pid = None
        /\ get_parent(family, k, "mother").pid = None

\* The proband has a linked mother and a sibling was added afterwards: the
\* proband finds its mother, the sibling and the mother find nobody.
C26_Witness ==
    /\ Proband.parents = <<None, "P1">>
    /\ "P2" \in DOMAIN family
    /\ family["P2"].relation = "sibling"
    /\ Mother.pid = "P1"
    /\ get_parent(family, "P2", "mother").pid = None
    /\ get_parent(family, "P1", "mother").pid = None

\* The id given to the n-th member added (the proband is member 0).
IdOf(n) == "P" \o ToString(n)

\* The mothers and fathers after whom another member of the same relation
\* was added.
Superseded ==
    {k \in DOMAIN family \ {proband_id} :
        /\ family[k].relation \in {"mother", "father"}
        /\ \E n, m \in 1..Cardinality(DOMAIN family) :
              /\ k = IdOf(n) /\ n < m /\ IdOf(m) \in DOMAIN family
              /\ family[IdOf(m)].relation = family[k].relation}

\* Parameter bundles with a non-zero penetrance and the default carrier
\* frequency: a zero factor would hide a dependence of a risk on a status.
ProbeBundles ==
    {b \in ValidBundles :
        b.penetrance # Zero /\ b.carrier_freq = Rat(1, 50)}

\* The store with the two statuses of member k replaced.
WithStatus(persons, k, aff, car) ==
    [persons EXCEPT ![k].affected = aff, ![k].carrier = car]

\* C27: a mother or father that a later mother or father addition has
\* superseded stays in the store but has no influence: whatever affected
\* and carrier status she or he had, every engine returns the same risk;
\* with a superseded Affected mother and a linked mother who is not
\* Affected the MITO risk is prevalence x penetrance.
C27_SupersededParents ==
    \A k \in Superseded :
        /\ k \in DOMAIN family
        /\ \A b \in ProbeBundles, i \in DOMAIN PATTERN_ENGINES :
              LET risk == ApplyEngine(i, family, Proband, b)
              IN  \A aff \in Tri, car \in Tri :
                    REq(ApplyEngine(i, WithStatus(family, k, aff, car),
                                    Proband, b),
                        risk)
        /\ (family[k].relation = "mother" /\ family[k].affected = "True"
              /\ IsPerson(Mother) /\ ~MotherAffected) =>
                \A b \in ProbeBundles :
                    REq(MITO(b), RMul(b.prevalence, b.penetrance))

\* An Affected mother was added and then an Unaffected one: the second is
\* linked, the first is still stored, and the MITO risk at the default
\* values is 0.001.
C27_Witness ==
    /\ {"P1", "P2"} \subseteq DOMAIN family
    /\ family["P1"].relation = "mother"
    /\ family["P1"].affected = "True"
    /\ family["P2"].relation = "mother"
    /\ family["P2"].affected = "False"
    /\ Proband.parents = <<None, "P2">>
    /\ "P1" \in Superseded
    /\ REq(MITO(DefaultParams), Rat(1, 1000))

\* Named submissions of relatives that are neither mother nor father.
NonParentInputs ==
    {Form("Kim", "sibling", sx, aff, IF sx = "M" THEN "Yes" ELSE "Unknown",
          0, "") : sx \in {"F", "M"}, aff \in TriChoices}
    \cup {Form("Kim", r, "F", "Yes", "Yes", 12, "") :
            r \in {"child", "grandparent", "aunt/uncle", "cousin", "other"}}

\* The risk of engine i on a store.
RiskOn(i, persons, b) == ApplyEngine(i, persons, persons[proband_id], b)

\* C28: adding a relative who is neither mother nor father leaves the AD,
\* XLR, XLD and MITO risks as they were, whatever the sex and the statuses
\* of the relative; the AR risk is left as it was unless the relative is a
\* sibling and Affected.
C28_NonParentFrame ==
    \A b \in ProbeBundles :
        LET before == [i \in DOMAIN PATTERN_ENGINES |-> RiskOn(i, family, b)]
        IN  \A f \in NonParentInputs :
              LET after == WithRelative(family, f)
              IN  /\ \A i \in 2..5 : REq(RiskOn(i, after, b), before[i])
                  /\ ~REq(RiskOn(1, after, b), before[1]) =>
                        (f.relation = "sibling" /\ f.affected = "Yes")

\* An affected cousin and then an affected sibling were added to a proband
\* without parents: the AR risk at the default values went from 0.0001 to
\* 1/9 with the sibling, the AD risk is still 0.0001.
C28_Witness ==
    /\ DOMAIN family = {"P0", "P1", "P2"}
    /\ family["P1"].relation = "cousin"
    /\ family["P1"].affected = "True"
    /\ family["P2"].relation = "sibling"
    /\ family["P2"].affected = "True"
    /\ REq(AR(DefaultParams), Rat(1, 9))
    /\ REq(RiskOn(1, [k \in {"P0", "P1"} |-> family[k]], DefaultParams),
           Rat(1, 10000))
    /\ REq(AD(DefaultParams), Rat(1, 10000))

\* The store with the carrier status of member k replaced.
WithCarrier(persons, k, v) == [persons EXCEPT ![k].carrier = v]

\* The members whose affected status an engine can read: the linked
\* parents and the siblings.
StatusReaders == (ParentIds(family, proband_id) \cap DOMAIN family)
                    \cup Siblings

\* All five engines return the same risks on both stores for every probe
\* bundle.
SameRisks(s1, s2) ==
    \A b \in ProbeBundles, i \in DOMAIN PATTERN_ENGINES :
        REq(RiskOn(i, s1, b), RiskOn(i, s2, b))

\* C29: for every engine, every pedigree and every probe bundle the risk is
\* the same whether a parent or a sibling is recorded as Unknown or as
\* Unaffected, and whether the mother's carrier status is Unknown or
\* NonCarrier.
C29_UnknownIsUnaffected ==
    /\ \A k \in StatusReaders :
          SameRisks(WithAffected(family, k, None),
                    WithAffected(family, k, "False"))
    /\ IsPerson(Mother) =>
          SameRisks(WithCarrier(family, Mother.pid, None),
                    WithCarrier(family, Mother.pid, "False"))

\* A male proband with a linked mother recorded as Unaffected and
\* NonCarrier and an affected sibling: the XLR risk at the default values
\* is the population default 0.01, as it is with her statuses Unknown.
C29_Witness ==
    /\ Proband.sex = "M"
    /\ IsPerson(Mother)
    /\ Mother.affected = "False"
    /\ Mother.carrier = "False"
    /\ Siblings # {}
    /\ REq(XLR(DefaultParams), Rat(1, 100))
    /\ REq(prob_proband_XLR(
              WithCarrier(WithAffected(family, Mother.pid, None),
                          Mother.pid, None),
              Proband, DefaultParams),
           Rat(1, 100))

\* What a parent contributes to the AR product when the carrier field is
\* not read: 1 if Affected, else carrier_freq, raised to 2/3 with an
\* affected sibling.
CarrierBlindShare(parent, b) ==
    IF IsPerson(parent) /\ parent.affected = "True" THEN One
    ELSE IF AffectedSiblings # {} THEN RMax(b.carrier_freq, TwoThirds)
    ELSE b.carrier_freq

====
